---- MODULE Spec2Model ----
(***************************************************************************)
(* go-dropbox: the streaming file handle (File.Read / File.Write /         *)
(* File.Close with its io.Pipe and background uploader), the send          *)
(* operation Client.do, the paginated listing Client.ListN and the         *)
(* requests of the endpoint wrappers (Client.call, Client.download,        *)
(* Client.pipe).                                                           *)
(*                                                                         *)
(* Strings whose content the code inspects (Content-Type, error text) are  *)
(* sequences of one-character strings, so that strings.HasPrefix and       *)
(* strings.Contains are computed, not assumed.                             *)
(***************************************************************************)
EXTENDS Integers, Sequences, FiniteSets, TLC

\* Calls the caller makes on one handle.
MaxOps == 3
\* Length of the slice one Write call passes.
MaxWriteLen == 2

\* Largest n passed to ListN.
MaxN == 2
\* Entries on one page of a listing.
MaxPageLen == 2
\* Requests one ListN call sends.
MaxPages == 3

Names == {"/hello.txt", "/"}

Min(a, b) == IF a < b THEN a ELSE b

IsPrefix(p, s) == Len(p) <= Len(s) /\ SubSeq(s, 1, Len(p)) = p

\* strings.HasPrefix(s, prefix)
HasPrefix(s, prefix) == Len(s) >= Len(prefix) /\ SubSeq(s, 1, Len(prefix)) = prefix

\* strings.Contains(s, substr)
Contains(s, substr) ==
    \E i \in 0..(Len(s) - Len(substr)) : SubSeq(s, i + 1, i + Len(substr)) = substr

\* "text/plain"
TextPlain == <<"t","e","x","t","/","p","l","a","i","n">>
\* "path/not_found/"
NotFoundPrefix == <<"p","a","t","h","/","n","o","t","_","f","o","u","n","d","/">>

\* Content-Type values: "text/plain", "text/plain; charset=utf-8", "application/json".
CTypes ==
    { TextPlain,
      TextPlain \o <<";"," ","c","h","a","r","s","e","t","=","u","t","f","-","8">>,
      <<"a","p","p","l","i","c","a","t","i","o","n","/","j","s","o","n">> }

\* Error summaries a response body may carry: "path/not_found/..",
\* "path/not_found" (no trailing slash) and "x/path/not_found/".
Texts ==
    { NotFoundPrefix \o <<".", ".">>,
      <<"p","a","t","h","/","n","o","t","_","f","o","u","n","d">>,
      <<"x", "/">> \o NotFoundPrefix }

Statuses == {200, 399, 400, 409}
Lengths == {-1, 5}

\* http.StatusText
StatusText(code) ==
    CASE code = 200 -> "OK"
      [] code = 400 -> "Bad Request"
      [] code = 409 -> "Conflict"
      [] OTHER -> ""

(***************************************************************************)
(* Error values.                                                           *)
(***************************************************************************)
NoErr == [kind |-> "nil"]
EOFErr == [kind |-> "EOF"]
ErrClosedPipe == [kind |-> "ErrClosedPipe"]
TransportErr == [kind |-> "transport"]
DecodeErr == [kind |-> "decode"]
BodyReadErr == [kind |-> "bodyread"]
BodyCloseErr == [kind |-> "bodyclose"]
ErrBodyReadAfterClose == [kind |-> "readclosed"]

PathError(op, path, errno) == [kind |-> "PathError", Op |-> op, Path |-> path, Err |-> errno]

\* e := &Error{Status: http.StatusText(res.StatusCode), StatusCode: res.StatusCode}
\* with the decoded body in Summary.
ServiceError(code, summary) ==
    [kind |-> "service", Status |-> StatusText(code), StatusCode |-> code, Summary |-> summary]

\* err.Error(): a service error's text is its decoded body; the library errors
\* have their fixed texts ("Post ...", "invalid character ...", ...).
ErrorText(e) ==
    CASE e.kind = "service" -> e.Summary
      [] e.kind = "transport" -> <<"P","o","s","t"," ">>
      [] e.kind = "decode" -> <<"i","n","v","a","l","i","d">>
      [] OTHER -> <<>>

(***************************************************************************)
(* The transport's answer to one request: a failure before any response,   *)
(* or a response.  readOK says whether the response body can be read to    *)
(* the end and decoded.                                                    *)
(***************************************************************************)
Responses ==
    [terr : {FALSE}, status : Statuses, ctype : CTypes, readOK : BOOLEAN,
     text : Texts, length : Lengths]

TransportFailure ==
    [terr |-> TRUE, status |-> 0, ctype |-> <<>>, readOK |-> FALSE,
     text |-> <<>>, length |-> 0]

DoInputs == Responses \cup {TransportFailure}

NilBody == "nil"
ResBody == "res.Body"

\* Client.do.  In the text/plain branch the err of `if b, err := io.ReadAll(...)`
\* is scoped to the if statement; the `return nil, 0, err` after it returns the
\* outer err, which is nil there.
do(r) ==
    IF r.terr THEN [body |-> NilBody, length |-> 0, err |-> TransportErr]
    ELSE IF r.status < 400 THEN [body |-> ResBody, length |-> r.length, err |-> NoErr]
    ELSE IF Contains(r.ctype, TextPlain)
         THEN IF r.readOK
              THEN [body |-> NilBody, length |-> 0, err |-> ServiceError(r.status, r.text)]
              ELSE [body |-> NilBody, length |-> 0, err |-> NoErr]
         ELSE IF r.readOK
              THEN [body |-> NilBody, length |-> 0, err |-> ServiceError(r.status, r.text)]
              ELSE [body |-> NilBody, length |-> 0, err |-> DecodeErr]

\* Files.Download: c.download("/files/download", in, nil), the body wrapped in
\* a DownloadOutput when err is nil.
Download(r) == do(r)

\* Files.Upload: the error it returns, or a panic when do hands back a nil body
\* with a nil error (defer body.Close() on a nil interface).
Upload(r) ==
    LET d == do(r) IN
    IF d.err # NoErr THEN [panic |-> FALSE, err |-> d.err]
    ELSE IF d.body = NilBody THEN [panic |-> TRUE, err |-> NoErr]
    ELSE [panic |-> FALSE, err |-> IF r.readOK THEN NoErr ELSE DecodeErr]

\* Every outcome the transport's answers give the two endpoints.
DownloadResults == {Download(r) : r \in DoInputs}
UploadResults == {Upload(r) : r \in DoInputs}

(***************************************************************************)
(* Listing.  A page is what the service's answer decodes to; the entries   *)
(* of a listing are numbered in the order the service returns them, the    *)
(* code never looks into one.                                              *)
(***************************************************************************)
\* Cursor values, the empty string among them.
Cursors == {"", "c1", "c2"}

\* ListFolderOutput, Entries given by their number.
PageData == [size : 0..MaxPageLen, Cursor : Cursors, HasMore : BOOLEAN]
NoPage == [size |-> 0, Cursor |-> "", HasMore |-> FALSE]

\* Files.ListFolder and Files.ListFolderContinue after the request was sent:
\* c.call's result, defer body.Close(), the body decoded into out.
ListFolderOutput(r, p) ==
    LET d == do(r) IN
    IF d.err # NoErr THEN [panic |-> FALSE, err |-> d.err, out |-> NoPage]
    ELSE IF d.body = NilBody THEN [panic |-> TRUE, err |-> NoErr, out |-> NoPage]
    ELSE IF r.readOK THEN [panic |-> FALSE, err |-> NoErr, out |-> p]
    ELSE [panic |-> FALSE, err |-> DecodeErr, out |-> NoPage]

\* Every outcome of one listing request.
ListResults == {ListFolderOutput(r, p) : r \in DoInputs, p \in PageData}

(***************************************************************************)
(* Requests.  A header map is a function from the names that were set;     *)
(* json.Marshal turns an input into the object of its json tags (a field   *)
(* tagged "-" is left out, client_modified is left out when empty).  Path  *)
(* strings are text, which Marshal and the service's decoder hand on       *)
(* unchanged.                                                              *)
(***************************************************************************)
Paths == Names \cup {"", "//"}

\* The File's pipe reader, f.pipeR, and the nil io.Reader.
PipeR == "pipeR"
NoReader == "nil"

ApiHost == "https://api.dropboxapi.com/2"
ContentHost == "https://content.dropboxapi.com/2"
AccessToken == "token"

\* "Bearer "+c.AccessToken
Bearer == <<"Bearer ", AccessToken>>

\* http.Header.Set
Set(h, k, v) == [x \in (DOMAIN h) \cup {k} |-> IF x = k THEN v ELSE h[x]]

\* The header map of a new request.
NoHeader == [x \in {} |-> ""]

NoBody == [kind |-> "none"]
JSONBody(m) == [kind |-> "json", json |-> m]
ReaderBody(rd) == [kind |-> "reader", reader |-> rd]

\* json.Marshal of the input types.
MarshalGetMetadata(in) == [path |-> in.Path, include_media_info |-> in.IncludeMediaInfo]
MarshalListFolder(in) ==
    [path |-> in.Path, recursive |-> in.Recursive,
     include_media_info |-> in.IncludeMediaInfo, include_deleted |-> in.IncludeDeleted]
MarshalListFolderContinue(in) == [cursor |-> in.Cursor]
MarshalDownload(in) == [path |-> in.Path]
MarshalUpload(in) ==
    IF in.ClientModified = ""
    THEN [path |-> in.Path, mode |-> in.Mode, autorename |-> in.AutoRename, mute |-> in.Mute]
    ELSE [path |-> in.Path, mode |-> in.Mode, autorename |-> in.AutoRename, mute |-> in.Mute,
          client_modified |-> in.ClientModified]

\* Client.call, up to c.do: the request it builds.
call(path, m) ==
    [url |-> <<ApiHost, path>>,
     Body |-> JSONBody(m),
     Header |-> Set(Set(NoHeader, "Authorization", Bearer),
                    "Content-Type", "application/json")]

\* Client.download, up to c.do: the request it builds.
downloadReq(path, m, rd) ==
    LET h == Set(Set(NoHeader, "Authorization", Bearer), "Dropbox-API-Arg", m) IN
    [url |-> <<ContentHost, path>>,
     Body |-> IF rd # NoReader THEN ReaderBody(rd) ELSE NoBody,
     Header |-> IF rd # NoReader
                THEN Set(h, "Content-Type", "application/octet-stream")
                ELSE h]

\* Client.pipe, up to the filter: the request it builds.
pipeReq(path, m) ==
    [url |-> <<ContentHost, path>>,
     Body |-> NoBody,
     Header |-> Set(Set(NoHeader, "Authorization", Bearer), "Dropbox-API-Arg", m)]

\* Mutant of normalizePath: nothing is rewritten.
normalizePathKeep(s) == s

\* normalizePath
normalizePath(s) == IF s = "/" THEN "" ELSE s

\* The requests of the endpoint wrappers.  ListFolder rewrites in.Path first.
GetMetadataReq(in) == call("/files/get_metadata", MarshalGetMetadata(in))
ListFolderReq(in) ==
    call("/files/list_folder",
         MarshalListFolder([in EXCEPT !.Path = normalizePath(in.Path)]))
ListFolderContinueReq(in) ==
    call("/files/list_folder/continue", MarshalListFolderContinue(in))
DownloadReq(in) == downloadReq("/files/download", MarshalDownload(in), NoReader)
UploadReq(in) == downloadReq("/files/upload", MarshalUpload(in), in.Reader)
StreamReq(in) == pipeReq("/files/download", MarshalDownload(in))

\* No request yet.
NoRequest == [url |-> <<"", "">>, Body |-> NoBody, Header |-> NoHeader]

\* The path a request carries to the service: in its JSON body, or in its
\* Dropbox-API-Arg header.
SentPath(req) ==
    IF req.Body.kind = "json" THEN req.Body.json.path
    ELSE req.Header["Dropbox-API-Arg"].path

\* HTTPClient.Do's answer as Go values: the response with its body not yet
\* read, or no response and an error.
NilResponse == [StatusCode |-> 0, ContentType |-> <<>>, ContentLength |-> 0, Body |-> "nil"]
HTTPResponse(r) ==
    [StatusCode |-> r.status, ContentType |-> r.ctype, ContentLength |-> r.length,
     Body |-> "unread"]
Do(r) ==
    IF r.terr THEN [res |-> NilResponse, err |-> TransportErr]
    ELSE [res |-> HTTPResponse(r), err |-> NoErr]

\* No endpoint call, no answer, nothing returned.
NoEpIn == [op |-> "", in |-> [Path |-> ""], filter |-> "nil"]
NoAnswer == [res |-> NilResponse, err |-> NoErr]
NoEpRet == [kind |-> "none"]

\* The input literals ListN builds.
ListFolderInput(path) ==
    [Path |-> path, Recursive |-> FALSE, IncludeMediaInfo |-> FALSE,
     IncludeDeleted |-> FALSE]
ListFolderContinueInput(c) == [Cursor |-> c]

\* WriteMode values.
WriteModeAdd == "add"
WriteModeOverwrite == "overwrite"

\* An UploadInput: the fields a composite literal does not name are zero.
UploadInput(path, mode, mute, rd) ==
    [Path |-> path, Mode |-> mode, AutoRename |-> FALSE, Mute |-> mute,
     ClientModified |-> "", Reader |-> rd]

\* No uploader has been launched.
NoReq == [Path |-> "", Mode |-> "", AutoRename |-> FALSE, Mute |-> FALSE,
          ClientModified |-> "", Reader |-> NoReader]

(***************************************************************************)
(* State.                                                                  *)
(*   name, closed, writing, reader : the File's fields                     *)
(*   werr, rerr                    : the pipe's write-side and read-side   *)
(*                                   close errors (NoErr: not closed)      *)
(*   pc, wall, wbuf, wn, wonce     : the caller; inside pipeW.Write the    *)
(*                                   slice passed, what is left of it, n   *)
(*                                   and the loop's `once`                 *)
(*   upc                           : the uploader goroutine                *)
(*   body, bodyEOF                 : what the transport has read of the    *)
(*                                   upload request body                   *)
(*   offered                       : the bytes passed to Write so far; the *)
(*                                   code never looks at a byte's value,   *)
(*                                   so each byte written is its offset in *)
(*                                   the caller's stream                   *)
(*   upReq                         : the UploadInput the uploader was      *)
(*                                   launched with                         *)
(*   ret, calls, wrote, wfail, upErr, upAt, uploads, downloads : history   *)
(*   doIn, doOut                   : one call of Client.do on its own      *)
(*   lnName, lnArgN, lnN, lnCursor, lnList, lnErr, lnPc : one call of      *)
(*                                   Client.ListN: the arguments it was    *)
(*                                   called with, its n, cursor, list and  *)
(*                                   err, its position                     *)
(*   lnReq, lnOut, lnReqs, lnTotal, lnFolderCalls : the last request ListN *)
(*                                   sent and the page it got, the number  *)
(*                                   of requests, of entries the service   *)
(*                                   returned, of list_folder requests     *)
(*   epIn, epPc, epReq, epFiltered, epRes, epRet : one call of an endpoint *)
(*                                   wrapper: its input, its position, the *)
(*                                   request as built so far, the calls of *)
(*                                   the header filter, the transport's    *)
(*                                   answer and what the wrapper returned  *)
(***************************************************************************)
VARIABLES name, closed, writing, reader, werr, rerr, pc, wall, wbuf, wn, wonce,
          upc, body, bodyEOF, ret, calls, wrote, wfail, upErr, upAt,
          uploads, downloads, crashed, offered, upReq, doIn, doOut,
          lnName, lnArgN, lnN, lnCursor, lnList, lnErr, lnPc,
          lnReq, lnOut, lnReqs, lnTotal, lnFolderCalls,
          epIn, epPc, epReq, epFiltered, epRes, epRet

fileVars == <<name, closed, writing, reader, werr, rerr, pc, wall, wbuf, wn, wonce,
              upc, body, bodyEOF, ret, calls, wrote, wfail, upErr, upAt,
              uploads, downloads, crashed, offered, upReq>>
doVars == <<doIn, doOut>>
listVars == <<lnName, lnArgN, lnN, lnCursor, lnList, lnErr, lnPc,
              lnReq, lnOut, lnReqs, lnTotal, lnFolderCalls>>
epVars == <<epIn, epPc, epReq, epFiltered, epRes, epRet>>
\* What the File's actions leave alone.
auxVars == <<doVars, listVars, epVars>>
vars == <<fileVars, doVars, listVars, epVars>>

ClosedBody == "closed"
NoDl == [kind |-> "none"]
NoResult == [body |-> NilBody, length |-> 0, err |-> [kind |-> "pending"]]

Return(op, n, err, dl) == [id |-> calls + 1, op |-> op, n |-> n, err |-> err, dl |-> dl]

\* What a Read of the download body may return.
BodyReads ==
    { [n |-> 1, err |-> NoErr], [n |-> 0, err |-> EOFErr], [n |-> 0, err |-> BodyReadErr] }

(***************************************************************************)
(* io.Pipe, as File uses it: an unbuffered hand-off.  A close error is     *)
(* stored once; a later close never overwrites it.                         *)
(***************************************************************************)
Store(cur, err) == IF cur # NoErr THEN cur ELSE err

closeWrite(err) == Store(werr, IF err = NoErr THEN EOFErr ELSE err)

closeRead(err) == Store(rerr, IF err = NoErr THEN ErrClosedPipe ELSE err)

PipeDone == werr # NoErr \/ rerr # NoErr

writeCloseError == IF werr = NoErr /\ rerr # NoErr THEN rerr ELSE ErrClosedPipe

readCloseError == IF rerr = NoErr /\ werr # NoErr THEN werr ELSE ErrClosedPipe

\* Mutant of WriteLoopDone: the loop left after the first hand-off.
WriteLoopDoneOnce == ~wonce

\* for once := true; once || len(b) > 0; once = false
WriteLoopDone == ~(wonce \/ Len(wbuf) > 0)

\* Mutant of Taken: the bytes copied from the wrong end of the slice.
TakenFromEnd(k) == SubSeq(wbuf, Len(wbuf) - Min(k, Len(wbuf)) + 1, Len(wbuf))

\* nr := copy(b, bw) on the reading side: the bytes handed over.
Taken(k) == SubSeq(wbuf, 1, Min(k, Len(wbuf)))

(***************************************************************************)
(* Client.Open                                                             *)
(***************************************************************************)
InitFile ==
    /\ name \in Names
    /\ closed = FALSE
    /\ writing = FALSE
    /\ reader = NilBody
    /\ werr = NoErr
    /\ rerr = NoErr
    /\ pc = "idle"
    /\ wall = <<>>
    /\ wbuf = <<>>
    /\ wn = 0
    /\ wonce = FALSE
    /\ upc = "none"
    /\ body = <<>>
    /\ bodyEOF = FALSE
    /\ ret = [id |-> 0, op |-> "none", n |-> 0, err |-> NoErr, dl |-> NoDl]
    /\ calls = 0
    /\ wrote = <<>>
    /\ wfail = FALSE
    /\ upErr = NoErr
    /\ upAt = 0
    /\ uploads = 0
    /\ downloads = 0
    /\ crashed = FALSE
    /\ offered = 0
    /\ upReq = NoReq

\* No ListN call and no endpoint call is under way.
IdleList ==
    /\ lnName = "" /\ lnArgN = 0 /\ lnN = 0 /\ lnCursor = "" /\ lnList = <<>>
    /\ lnErr = NoErr /\ lnPc = "idle" /\ lnReq = NoRequest /\ lnOut = NoPage
    /\ lnReqs = 0 /\ lnTotal = 0 /\ lnFolderCalls = 0

IdleEp ==
    /\ epIn = NoEpIn /\ epPc = "idle" /\ epReq = NoRequest /\ epFiltered = 0
    /\ epRes = NoAnswer /\ epRet = NoEpRet

IdleDo == doIn = TransportFailure /\ doOut = NoResult

Init ==
    /\ InitFile
    /\ IdleDo
    /\ IdleList
    /\ IdleEp

\* Mutant of download: the not-found text looked for anywhere in the error text.
downloadContains(d) ==
    IF d.err # NoErr
    THEN IF Contains(ErrorText(d.err), NotFoundPrefix)
         THEN [err |-> PathError("open", name, "ENOENT"), reader |-> reader]
         ELSE [err |-> d.err, reader |-> reader]
    ELSE [err |-> NoErr, reader |-> d.body]

(***************************************************************************)
(* File.download: the error it returns and the reader the handle holds     *)
(* afterwards, given what Files.Download returned.                         *)
(***************************************************************************)
download(d) ==
    IF d.err # NoErr
    THEN IF HasPrefix(ErrorText(d.err), NotFoundPrefix)
         THEN [err |-> PathError("open", name, "ENOENT"), reader |-> reader]
         ELSE [err |-> d.err, reader |-> reader]
    ELSE [err |-> NoErr, reader |-> d.body]

(***************************************************************************)
(* File.Read.  raw is what Files.Download returns should a download be     *)
(* made, out what the body's Read gives.  A nil reader after a download    *)
(* that reported no error makes f.reader.Read panic.                       *)
(***************************************************************************)
\* Mutant of ReaderIsNil: Read downloads whether or not a body is held.
ReaderUnchecked == TRUE

\* f.reader == nil
ReaderIsNil == reader = NilBody

Read(raw, out) ==
    /\ ~crashed /\ pc = "idle" /\ calls < MaxOps
    /\ calls' = calls + 1
    /\ IF ReaderIsNil
       THEN LET dl == download(raw)
            IN  /\ downloads' = downloads + 1
                /\ reader' = dl.reader
                /\ IF dl.err # NoErr
                   THEN ret' = Return("Read", 0, dl.err, raw.err) /\ crashed' = crashed
                   ELSE IF dl.reader = NilBody
                        THEN crashed' = TRUE /\ ret' = ret
                        ELSE ret' = Return("Read", out.n, out.err, raw.err)
                             /\ crashed' = crashed
       ELSE /\ ret' = IF reader = ClosedBody
                      THEN Return("Read", 0, ErrBodyReadAfterClose, NoDl)
                      ELSE Return("Read", out.n, out.err, NoDl)
            /\ UNCHANGED <<downloads, reader, crashed>>
    /\ UNCHANGED <<name, closed, writing, werr, rerr, pc, wall, wbuf, wn, wonce, upc,
                   body, bodyEOF, wrote, wfail, upErr, upAt, uploads, offered, upReq, auxVars>>

(***************************************************************************)
(* File.Write, up to the point where pipeW.Write either returns at once    *)
(* (the pipe is done) or offers b to the reading side.  b is the next len  *)
(* bytes of the caller's stream.                                           *)
(***************************************************************************)
NextBytes(len) == [i \in 1..len |-> offered + i]

\* Mutant of FirstWrite: every Write launches an uploader.
AnyWrite == TRUE

\* !f.writing
FirstWrite == ~writing

Write(len) ==
    /\ ~crashed /\ pc = "idle" /\ calls < MaxOps
    /\ calls' = calls + 1
    /\ offered' = offered + len
    /\ writing' = TRUE
    /\ IF FirstWrite
       THEN /\ upc' = "inflight"
            /\ uploads' = uploads + 1
            /\ upReq' = UploadInput(name, WriteModeOverwrite, TRUE, PipeR)
       ELSE UNCHANGED <<upc, uploads, upReq>>
    /\ IF PipeDone
       THEN /\ ret' = Return("Write", 0, writeCloseError, NoDl)
            /\ wfail' = TRUE
            /\ UNCHANGED <<pc, wall, wbuf, wn, wonce>>
       ELSE /\ pc' = "write"
            /\ wall' = NextBytes(len)
            /\ wbuf' = NextBytes(len)
            /\ wn' = 0
            /\ wonce' = TRUE
            /\ UNCHANGED <<ret, wfail>>
    /\ UNCHANGED <<name, closed, reader, werr, rerr, body, bodyEOF, wrote, upErr, upAt,
                   downloads, crashed, auxVars>>

\* pipeW.Write returns: the loop has ended, or the pipe was closed under it.
WriteReturn ==
    /\ ~crashed /\ pc = "write"
    /\ \/ /\ WriteLoopDone
          /\ ret' = [id |-> calls, op |-> "Write", n |-> wn, err |-> NoErr, dl |-> NoDl]
          /\ wrote' = wrote \o wall
          /\ wfail' = wfail
       \/ /\ ~WriteLoopDone /\ PipeDone
          /\ ret' = [id |-> calls, op |-> "Write", n |-> wn, err |-> writeCloseError,
                     dl |-> NoDl]
          /\ wrote' = wrote
          /\ wfail' = TRUE
    /\ pc' = "idle"
    /\ wall' = <<>> /\ wbuf' = <<>> /\ wn' = 0 /\ wonce' = FALSE
    /\ UNCHANGED <<name, closed, writing, reader, werr, rerr, upc, body, bodyEOF, calls,
                   upErr, upAt, uploads, downloads, crashed, offered, upReq, auxVars>>

\* Mutant of Close: the closed test made after the resources are closed.
CloseCheckLast(cerr) ==
    /\ ~crashed /\ pc = "idle" /\ calls < MaxOps
    /\ calls' = calls + 1
    /\ closed' = TRUE
    /\ werr' = IF writing THEN closeWrite(NoErr) ELSE werr
    /\ reader' = IF reader # NilBody THEN ClosedBody ELSE reader
    /\ ret' = IF closed
              THEN Return("Close", 0, PathError("close", name, "EINVAL"), NoDl)
              ELSE Return("Close", 0, IF reader # NilBody THEN cerr ELSE NoErr, NoDl)
    /\ UNCHANGED <<name, writing, rerr, pc, wall, wbuf, wn, wonce, upc, body, bodyEOF,
                   wrote, wfail, upErr, upAt, uploads, downloads, crashed, offered, upReq, auxVars>>

\* Mutant of Close: the download body dropped from the handle once closed.
CloseDropReader(cerr) ==
    /\ ~crashed /\ pc = "idle" /\ calls < MaxOps
    /\ calls' = calls + 1
    /\ IF closed
       THEN /\ ret' = Return("Close", 0, PathError("close", name, "EINVAL"), NoDl)
            /\ UNCHANGED <<closed, werr, reader>>
       ELSE /\ closed' = TRUE
            /\ werr' = IF writing THEN closeWrite(NoErr) ELSE werr
            /\ reader' = NilBody
            /\ ret' = Return("Close", 0, IF reader # NilBody THEN cerr ELSE NoErr, NoDl)
    /\ UNCHANGED <<name, writing, rerr, pc, wall, wbuf, wn, wonce, upc, body, bodyEOF,
                   wrote, wfail, upErr, upAt, uploads, downloads, crashed, offered, upReq, auxVars>>

(***************************************************************************)
(* File.Close.  cerr is what the download body's Close returns.            *)
(***************************************************************************)
Close(cerr) ==
    /\ ~crashed /\ pc = "idle" /\ calls < MaxOps
    /\ calls' = calls + 1
    /\ IF closed
       THEN /\ ret' = Return("Close", 0, PathError("close", name, "EINVAL"), NoDl)
            /\ UNCHANGED <<closed, werr, reader>>
       ELSE /\ closed' = TRUE
            /\ werr' = IF writing THEN closeWrite(NoErr) ELSE werr
            /\ reader' = IF reader # NilBody THEN ClosedBody ELSE reader
            /\ ret' = Return("Close", 0, IF reader # NilBody THEN cerr ELSE NoErr, NoDl)
    /\ UNCHANGED <<name, writing, rerr, pc, wall, wbuf, wn, wonce, upc, body, bodyEOF,
                   wrote, wfail, upErr, upAt, uploads, downloads, crashed, offered, upReq, auxVars>>

(***************************************************************************)
(* The uploader goroutine: Files.Upload with the pipe reader as the        *)
(* request body, then f.pipeR.CloseWithError(err).                         *)
(*                                                                         *)
(* http.NewRequest takes the *io.PipeReader as the request Body itself (it *)
(* is an io.ReadCloser), and the transport reads it with buffers of any    *)
(* size and closes it when it is through with it, on errors too.           *)
(***************************************************************************)
TransportRead(k) ==
    /\ ~crashed /\ upc = "inflight" /\ ~bodyEOF
    /\ \/ /\ PipeDone
          /\ bodyEOF' = (readCloseError = EOFErr)
          /\ UNCHANGED <<body, wbuf, wn, wonce>>
       \/ /\ ~PipeDone /\ pc = "write" /\ ~WriteLoopDone
          /\ body' = body \o Taken(k)
          /\ wbuf' = SubSeq(wbuf, Len(Taken(k)) + 1, Len(wbuf))
          /\ wn' = wn + Len(Taken(k))
          /\ wonce' = FALSE
          /\ bodyEOF' = bodyEOF
    /\ UNCHANGED <<name, closed, writing, reader, werr, rerr, pc, wall, upc, ret, calls,
                   wrote, wfail, upErr, upAt, uploads, downloads, crashed, offered, upReq, auxVars>>

\* The transport closes the request body: pipeR.Close().
TransportCloseBody ==
    /\ ~crashed /\ upc = "inflight"
    /\ upc' = "bodyclosed"
    /\ rerr' = closeRead(NoErr)
    /\ UNCHANGED <<name, closed, writing, reader, werr, pc, wall, wbuf, wn, wonce, body,
                   bodyEOF, ret, calls, wrote, wfail, upErr, upAt, uploads, downloads,
                   crashed, offered, upReq, auxVars>>

\* HTTPClient.Do returns, Files.Upload returns u, and the goroutine closes
\* the pipe reader with Upload's error.
UploadFinish(u) ==
    /\ ~crashed /\ upc \in {"inflight", "bodyclosed"}
    /\ IF u.panic
       THEN /\ crashed' = TRUE
            /\ upc' = "panic"
            /\ UNCHANGED <<rerr, upErr, upAt>>
       ELSE /\ rerr' = closeRead(u.err)
            /\ upc' = "done"
            /\ upErr' = u.err
            /\ upAt' = calls
            /\ crashed' = crashed
    /\ UNCHANGED <<name, closed, writing, reader, werr, pc, wall, wbuf, wn, wonce, body,
                   bodyEOF, ret, calls, wrote, wfail, uploads, downloads, offered,
                   upReq, auxVars>>

Next ==
    \/ \E raw \in DownloadResults, out \in BodyReads : Read(raw, out)
    \/ \E len \in 0..MaxWriteLen : Write(len)
    \/ WriteReturn
    \/ \E cerr \in {NoErr, BodyCloseErr} : Close(cerr)
    \/ \E k \in 1..MaxWriteLen : TransportRead(k)
    \/ TransportCloseBody
    \/ \E u \in UploadResults : UploadFinish(u)

Spec == Init /\ [][Next]_vars

(***************************************************************************)
(* The same handle under fair scheduling.  The runtime schedules the       *)
(* goroutines fairly: a pipe read that can complete does, and so does a    *)
(* pipe write whose loop has ended or whose pipe was closed.  The          *)
(* transport finishes a request whose body has ended: it has read the      *)
(* body to EOF, or it has closed the body.  Nothing makes the caller call, *)
(* and nothing makes the transport answer while the body is still open.    *)
(***************************************************************************)
BodyEnded == bodyEOF \/ upc = "bodyclosed"

Fairness ==
    /\ WF_vars(\E k \in 1..MaxWriteLen : TransportRead(k))
    /\ WF_vars(WriteReturn)
    /\ WF_vars(BodyEnded /\ \E u \in UploadResults : UploadFinish(u))

SpecLive == Init /\ [][Next]_vars /\ Fairness

(***************************************************************************)
(* Client.do on its own: one request, one answer.                          *)
(***************************************************************************)
InitDo ==
    /\ InitFile
    /\ doIn \in DoInputs
    /\ doOut = NoResult
    /\ IdleList
    /\ IdleEp

DoCall ==
    /\ doOut = NoResult
    /\ doOut' = do(doIn)
    /\ UNCHANGED <<doIn, fileVars, listVars, epVars>>

NextDo == DoCall

SpecDo == InitDo /\ [][NextDo]_vars

(***************************************************************************)
(* Client.ListN on its own: the call, then one step per iteration of its   *)
(* loop.  The step that leaves the loop also runs the statements after it  *)
(* (lnPc "done"); a request's error returns from inside the loop (lnPc     *)
(* "failed"), a nil body from c.call panics in the wrapper (lnPc "panic"). *)
(***************************************************************************)
InitList ==
    /\ InitFile
    /\ IdleDo
    /\ IdleEp
    /\ lnName \in Names
    /\ lnArgN \in -1..MaxN
    /\ lnN = lnArgN
    /\ lnCursor = "" /\ lnList = <<>> /\ lnErr = NoErr /\ lnPc = "call"
    /\ lnReq = NoRequest /\ lnOut = NoPage
    /\ lnReqs = 0 /\ lnTotal = 0 /\ lnFolderCalls = 0

\* if n <= 0 { n = -1 }
ListNCall ==
    /\ lnPc = "call"
    /\ lnN' = IF lnN <= 0 THEN -1 ELSE lnN
    /\ lnPc' = "loop"
    /\ UNCHANGED <<lnName, lnArgN, lnCursor, lnList, lnErr, lnReq, lnOut, lnReqs,
                   lnTotal, lnFolderCalls, fileVars, doVars, epVars>>

\* out.Entries of a page: the next p.size entries of the service's listing.
Entries(p) == [i \in 1..p.size |-> lnTotal + i]

\* Mutant of CapReached: the loop goes on until the cap is exceeded.
CapExceeded(n, len) == n >= 0 /\ len > n

\* n >= 0 && len(list) >= n
CapReached(n, len) == n >= 0 /\ len >= n

\* Mutant of EmptyWithCap: an empty list is an error whatever n is.
EmptyAlways(n, len) == len = 0

\* n >= 0 && len(list) == 0
EmptyWithCap(n, len) == n >= 0 /\ len = 0

\* One iteration: the request the cursor selects, its outcome o, the entries
\* appended, the two break tests; after a break, the test for the empty list.
ListNPage(o) ==
    /\ lnPc = "loop" /\ lnReqs < MaxPages
    /\ lnReq' = IF lnCursor = ""
                THEN ListFolderReq(ListFolderInput(lnName))
                ELSE ListFolderContinueReq(ListFolderContinueInput(lnCursor))
    /\ lnReqs' = lnReqs + 1
    /\ lnFolderCalls' = IF lnCursor = "" THEN lnFolderCalls + 1 ELSE lnFolderCalls
    /\ IF o.panic
       THEN /\ lnPc' = "panic"
            /\ UNCHANGED <<lnCursor, lnList, lnErr, lnOut, lnTotal>>
       ELSE IF o.err # NoErr
       THEN /\ lnErr' = o.err
            /\ lnPc' = "failed"
            /\ UNCHANGED <<lnCursor, lnList, lnOut, lnTotal>>
       ELSE LET all == lnList \o Entries(o.out)
                capped == CapReached(lnN, Len(all))
                final == IF capped THEN SubSeq(all, 1, lnN) ELSE all
            IN  /\ lnCursor' = o.out.Cursor
                /\ lnOut' = o.out
                /\ lnTotal' = lnTotal + o.out.size
                /\ lnList' = final
                /\ IF capped \/ ~o.out.HasMore
                   THEN /\ lnPc' = "done"
                        /\ lnErr' = IF EmptyWithCap(lnN, Len(final)) THEN EOFErr ELSE lnErr
                   ELSE UNCHANGED <<lnPc, lnErr>>
    /\ UNCHANGED <<lnName, lnArgN, lnN, fileVars, doVars, epVars>>

NextList ==
    \/ ListNCall
    \/ \E o \in ListResults : ListNPage(o)

SpecList == InitList /\ [][NextList]_vars

(***************************************************************************)
(* One call of an endpoint wrapper on its own.  GetMetadata, ListFolder,   *)
(* Download and Upload build their request and hand it to c.do; Stream     *)
(* goes through Client.pipe, whose statements are separate steps: the      *)
(* request with its two headers, the filter, the dispatch.                 *)
(***************************************************************************)
\* Header filters a caller may pass: none, one that asks for a byte range, one
\* that replaces the Authorization header.
Filters == {"nil", "range", "auth"}

\* filter(req.Header)
ApplyFilter(f, h) ==
    CASE f = "range" -> Set(h, "Range", "bytes=0-1")
      [] f = "auth" -> Set(h, "Authorization", <<"Bearer ", "other">>)
      [] OTHER -> h

EpInputs ==
    [op : {"GetMetadata"}, in : [Path : Paths, IncludeMediaInfo : BOOLEAN],
     filter : {"nil"}]
    \cup [op : {"ListFolder"},
          in : [Path : Paths, Recursive : BOOLEAN, IncludeMediaInfo : BOOLEAN,
                IncludeDeleted : BOOLEAN],
          filter : {"nil"}]
    \cup [op : {"Download"}, in : [Path : Paths], filter : {"nil"}]
    \cup [op : {"Upload"},
          in : {UploadInput(path, mode, mute, PipeR) :
                  path \in Paths, mode \in {WriteModeAdd, WriteModeOverwrite},
                  mute \in BOOLEAN},
          filter : {"nil"}]
    \cup [op : {"Stream"}, in : [Path : Paths], filter : Filters]

\* Files.GetMetadata after c.call: the error it returns, or a panic on a nil
\* body with a nil error.
GetMetadata(r) ==
    LET d == do(r) IN
    IF d.err # NoErr THEN [panic |-> FALSE, err |-> d.err]
    ELSE IF d.body = NilBody THEN [panic |-> TRUE, err |-> NoErr]
    ELSE [panic |-> FALSE, err |-> IF r.readOK THEN NoErr ELSE DecodeErr]

GetMetadataResults == {GetMetadata(r) : r \in DoInputs}

\* Mutant of pipe: the answer goes through Client.do, as in the other
\* endpoints.
pipeThroughDo(r) ==
    LET d == do(r) IN
    IF d.body = NilBody THEN [res |-> NilResponse, err |-> d.err]
    ELSE Do(r)

\* Client.pipe's last statement: return c.HTTPClient.Do(req).
pipe(r) == Do(r)

InitEp ==
    /\ InitFile
    /\ IdleDo
    /\ IdleList
    /\ epIn \in EpInputs
    /\ epPc = "call"
    /\ epReq = NoRequest /\ epFiltered = 0 /\ epRes = NoAnswer /\ epRet = NoEpRet

GetMetadataCall(u) ==
    /\ epPc = "call" /\ epIn.op = "GetMetadata"
    /\ epReq' = GetMetadataReq(epIn.in)
    /\ epRet' = u
    /\ epPc' = "done"
    /\ UNCHANGED <<epIn, epFiltered, epRes, fileVars, doVars, listVars>>

ListFolderCall(o) ==
    /\ epPc = "call" /\ epIn.op = "ListFolder"
    /\ epReq' = ListFolderReq(epIn.in)
    /\ epRet' = o
    /\ epPc' = "done"
    /\ UNCHANGED <<epIn, epFiltered, epRes, fileVars, doVars, listVars>>

DownloadCall(d) ==
    /\ epPc = "call" /\ epIn.op = "Download"
    /\ epReq' = DownloadReq(epIn.in)
    /\ epRet' = d
    /\ epPc' = "done"
    /\ UNCHANGED <<epIn, epFiltered, epRes, fileVars, doVars, listVars>>

UploadCall(u) ==
    /\ epPc = "call" /\ epIn.op = "Upload"
    /\ epReq' = UploadReq(epIn.in)
    /\ epRet' = u
    /\ epPc' = "done"
    /\ UNCHANGED <<epIn, epFiltered, epRes, fileVars, doVars, listVars>>

\* Client.pipe: NewRequest and the two Header.Set calls.
StreamBuild ==
    /\ epPc = "call" /\ epIn.op = "Stream"
    /\ epReq' = StreamReq(epIn.in)
    /\ epPc' = "built"
    /\ UNCHANGED <<epIn, epFiltered, epRes, epRet, fileVars, doVars, listVars>>

\* Client.pipe: if filter != nil { filter(req.Header) }
StreamFilter ==
    /\ epPc = "built"
    /\ IF epIn.filter # "nil"
       THEN /\ epReq' = [epReq EXCEPT !.Header = ApplyFilter(epIn.filter, @)]
            /\ epFiltered' = epFiltered + 1
       ELSE UNCHANGED <<epReq, epFiltered>>
    /\ epPc' = "filtered"
    /\ UNCHANGED <<epIn, epRes, epRet, fileVars, doVars, listVars>>

\* Client.pipe: return c.HTTPClient.Do(req), the transport answering r.
StreamDo(r) ==
    /\ epPc = "filtered"
    /\ epRes' = Do(r)
    /\ epRet' = pipe(r)
    /\ epPc' = "done"
    /\ UNCHANGED <<epIn, epReq, epFiltered, fileVars, doVars, listVars>>

NextEp ==
    \/ \E u \in GetMetadataResults : GetMetadataCall(u)
    \/ \E o \in ListResults : ListFolderCall(o)
    \/ \E d \in DownloadResults : DownloadCall(d)
    \/ \E u \in UploadResults : UploadCall(u)
    \/ StreamBuild
    \/ StreamFilter
    \/ \E r \in DoInputs : StreamDo(r)

SpecEp == InitEp /\ [][NextEp]_vars

(***************************************************************************)
(* Properties.                                                             *)
(***************************************************************************)
\* A call returned in this step.
Returned(op) == ret'.id # ret.id /\ ret'.op = op

EINVALError == PathError("close", name, "EINVAL")
ENOENTError == PathError("open", name, "ENOENT")

\* C1: when every Write on the handle has returned without error and Close has
\* then closed the pipe writer, the upload body the transport has read is
\* exactly the bytes written, in order, and the body ends there: the
\* transport's next read of it returns end-of-stream.
C1_RoundTripBytes ==
    (werr = EOFErr /\ ~wfail) =>
        /\ pc = "idle"
        /\ body = wrote
        /\ (upc = "inflight" => PipeDone /\ readCloseError = EOFErr)

C1_Witness ==
    /\ ret.op = "Close" /\ ret.err = NoErr
    /\ werr = EOFErr /\ ~wfail
    /\ Len(wrote) = 3
    /\ bodyEOF

\* C2 (as claimed): once the closed flag is set, no step starts a download or
\* launches an uploader, and every Read and Write that returns, returns an error.
C2_ClosedOpsFail ==
    [][ closed =>
          /\ downloads' = downloads
          /\ uploads' = uploads
          /\ (Returned("Read") \/ Returned("Write") => ret'.err # NoErr) ]_vars

\* C3 (as claimed): when the uploader has finished with an error that no Write
\* in flight has returned, the first call the caller makes after that, if it
\* is a Write or a Close, returns that error.
C3_UploadErrorSurfaced ==
    [][ ( /\ upc = "done" /\ upErr # NoErr
          /\ pc = "idle" /\ calls = upAt /\ ~wfail
          /\ (Returned("Write") \/ Returned("Close")) )
        => ret'.err = upErr ]_vars

\* C4: a Close on a handle whose closed flag is set returns the path error
\* close/<path>/EINVAL and changes nothing of the handle, the pipe or the
\* download body; a Close on a handle whose closed flag is not set never
\* returns that error.
C4_DoubleClose ==
    [][ Returned("Close") =>
          IF closed
          THEN /\ ret'.err = EINVALError
               /\ UNCHANGED <<name, closed, writing, reader, werr, rerr, upc, body, bodyEOF>>
          ELSE ret'.err # EINVALError ]_vars

C4_Witness ==
    /\ ret.op = "Close" /\ ret.err = EINVALError
    /\ writing /\ werr = EOFErr

\* C5 (as claimed): a Write made on a not yet closed handle after the uploader
\* has closed the pipe reader with its outcome returns a non-nil error, takes no
\* byte into the upload, and returns the uploader's error E when there is one.
C5_WriteAfterUploaderDone ==
    [][ (upc = "done" /\ pc = "idle" /\ ~closed /\ Returned("Write")) =>
          /\ ret'.err # NoErr
          /\ ret'.n = 0
          /\ body' = body
          /\ (upErr # NoErr => ret'.err = upErr) ]_vars

\* C6: at the step in which Close returns on a handle in writing state, every
\* byte of every Write that returned without error has been read from the pipe
\* by the upload request body, and none is still held by the pipe.
C6_NoBytesLostBeforeClose ==
    [][ (Returned("Close") /\ writing) => (IsPrefix(wrote', body') /\ wbuf' = <<>>) ]_vars

C6_Witness ==
    /\ ret.op = "Close" /\ ret.err = NoErr /\ writing
    /\ Len(wrote) = 2
    /\ IsPrefix(wrote, body)

\* C7 (as claimed): once Close has been called on a handle that was not
\* writing, no step launches an uploader.
C7_NoUploadAfterIdleClose ==
    [][ (closed /\ ~writing) => (upc' = "none" /\ uploads' = 0) ]_vars

OneWayStep ==
    /\ closed => closed'
    /\ writing => writing'
    /\ reader # NilBody => reader' # NilBody

\* C8 (as claimed): the writing flag and a download body are never held
\* together, and the handle's transitions are one-way.
C8_ReaderOrWriter == [][ ~(writing' /\ reader' # NilBody) /\ OneWayStep ]_vars

\* C8 (amended): the handle's transitions are one-way: the closed flag, the
\* writing flag and the download body, once set, stay set; a handle may be a
\* reader and a writer at once.
C8_OneWay == [][OneWayStep]_vars

C8_Witness == writing /\ reader = ResBody /\ ~closed /\ ret.op = "Write"

\* C9 (as claimed, an undecodable JSON error body let through as an error):
\* for a response with status >= 400 the send operation returns no body and an
\* error, which for a readable body is the service error carrying the status
\* code, the status text and the decoded body; for a status < 400 it returns
\* the response body and content length with no error.
C9_SendErrorContract ==
    (doOut # NoResult /\ ~doIn.terr) =>
        IF doIn.status >= 400
        THEN /\ doOut.body = NilBody
             /\ doOut.err # NoErr
             /\ doIn.readOK =>
                    doOut.err = [kind |-> "service", Status |-> StatusText(doIn.status),
                                 StatusCode |-> doIn.status, Summary |-> doIn.text]
        ELSE doOut = [body |-> ResBody, length |-> doIn.length, err |-> NoErr]

\* C10: a Read whose download failed returns 0 bytes and leaves the handle
\* without a download body; it returns the path error open/<path>/ENOENT when
\* the failure is a service error whose text begins with "path/not_found/",
\* and the download's error unchanged otherwise.
C10_NotFoundTranslation ==
    (ret.op = "Read" /\ ret.dl \notin {NoDl, NoErr}) =>
        /\ ret.n = 0
        /\ reader = NilBody
        /\ ret.err = IF ret.dl.kind = "service" /\ IsPrefix(NotFoundPrefix, ret.dl.Summary)
                     THEN ENOENTError
                     ELSE ret.dl

C10_Witness ==
    /\ ret.op = "Read" /\ ret.err = ENOENTError
    /\ ret.dl.kind = "service" /\ ret.dl.StatusCode = 409

(***************************************************************************)
(* Properties of Client.ListN.                                             *)
(***************************************************************************)
\* ListN has returned.
ListNReturned == lnPc \in {"done", "failed"}

\* The number of entries ListN is to return of the lnTotal entries the service
\* has returned.
ListWant == IF lnArgN > 0 THEN Min(lnArgN, lnTotal) ELSE lnTotal

\* C11: when ListN returns, its list is the first min(n, total) entries the
\* service returned, in the service's order, for n > 0, and all of them for
\* n <= 0; and a request after the first is sent only when the page before it
\* reported has_more and the entries so far are fewer than a positive n.
C11_CapAndOrder ==
    [][ /\ ListNReturned' => lnList' = [i \in 1..ListWant' |-> i]
        /\ (lnReqs' > lnReqs /\ lnReqs > 0) =>
               (lnOut.HasMore /\ ~(lnArgN > 0 /\ lnTotal >= lnArgN)) ]_vars

\* A call with a cap that fetched two pages or more and cut the list to n.
C11_Witness ==
    /\ lnPc = "done" /\ lnArgN > 0 /\ lnReqs >= 2 /\ lnTotal > lnArgN
    /\ Len(lnList) = lnArgN

\* C12 as stated: for n >= 0, n = 0 included, a ListN whose loop ended with an
\* empty list fails with io.EOF, and one whose list is not empty returns no
\* error.
C12_EmptyWithCapStated ==
    (lnPc = "done" /\ lnArgN >= 0) =>
        /\ lnList = <<>> => lnErr = EOFErr
        /\ lnList # <<>> => lnErr = NoErr

\* C12, amended: the empty list is io.EOF for n > 0 only; for n <= 0, n = 0
\* included, and for a list that is not empty ListN returns no error.
C12_EmptyWithCap ==
    lnPc = "done" =>
        /\ (lnArgN > 0 /\ lnList = <<>>) => lnErr = EOFErr
        /\ (lnArgN <= 0 \/ lnList # <<>>) => lnErr = NoErr

\* A capped call whose listing ended, after two pages, without an entry.
C12_Witness ==
    lnPc = "done" /\ lnArgN > 0 /\ lnList = <<>> /\ lnErr = EOFErr /\ lnReqs >= 2

\* C15: the first request of a ListN call is list_folder, no later one is, and
\* every later request is list_folder/continue with the cursor of the page
\* received just before it, whatever that cursor is.
C15_PaginationProtocol ==
    [][ lnReqs' > lnReqs =>
          IF lnReqs = 0
          THEN lnReq' = ListFolderReq(ListFolderInput(lnName))
          ELSE lnReq' = ListFolderContinueReq(ListFolderContinueInput(lnOut.Cursor)) ]_vars

(***************************************************************************)
(* Properties of the endpoint wrappers.                                    *)
(***************************************************************************)
\* C13: the request ListFolder sends carries path "" when it was given "/" and
\* the given path otherwise; the requests GetMetadata, Download, Upload and
\* Stream send carry the path they were given, "/" included.
C13_NormalizeListingOnly ==
    epPc = "done" =>
        SentPath(epReq) = IF epIn.op = "ListFolder" /\ epIn.in.Path = "/"
                          THEN ""
                          ELSE epIn.in.Path

\* ListFolder was given "/" and sent "".
C13_Witness ==
    /\ epPc = "done" /\ epIn.op = "ListFolder" /\ epIn.in.Path = "/"
    /\ SentPath(epReq) = ""

\* The number of times Stream is to call its filter.
FilterCalls == IF epIn.filter = "nil" THEN 0 ELSE 1

\* C19: Stream calls the filter once when one is given, on a request that
\* has its Authorization and Dropbox-API-Arg headers and has not been
\* dispatched; it dispatches after that, and returns the transport's response
\* and error as they are: a response with status >= 400 comes back as a
\* response with a nil error and its body unread and open.
C19_RawStream ==
    [][ /\ epFiltered' # epFiltered =>
               /\ epFiltered = 0 /\ epFiltered' = 1
               /\ {"Authorization", "Dropbox-API-Arg"} \subseteq DOMAIN epReq.Header
               /\ epPc # "done" /\ epPc' # "done" /\ epRes = NoAnswer
        /\ (epIn.op = "Stream" /\ epPc # "done" /\ epPc' = "done") =>
               /\ epFiltered = FilterCalls
               /\ epRet' = epRes'
               /\ epRet'.res.StatusCode >= 400 =>
                      (epRet'.err = NoErr /\ epRet'.res.Body = "unread") ]_vars

\* Stream with a filter returned a 409 response.
C19_Witness ==
    /\ epPc = "done" /\ epIn.op = "Stream" /\ epIn.filter # "nil"
    /\ epFiltered = 1
    /\ epRet.res.StatusCode = 409 /\ epRet.err = NoErr /\ epRet.res.Body = "unread"

(***************************************************************************)
(* Properties of the handle: the uploader and the lazy download.           *)
(***************************************************************************)
\* A Write call was made in this step, a Read call was made in this step.
WriteCalled == calls' = calls + 1 /\ (pc' = "write" \/ Returned("Write"))
ReadCalled == calls' = calls + 1 /\ (Returned("Read") \/ (crashed' /\ ~crashed))

\* C14: an uploader is launched by the handle's first Write call and by no
\* other step, so at most once; it is launched with the handle's path, mode
\* overwrite, mute set, autorename unset and the pipe reader as the body of
\* the upload request.
C14_SingleUploader ==
    [][ /\ uploads' # uploads =>
               /\ WriteCalled /\ ~writing /\ uploads = 0 /\ uploads' = 1
               /\ upc = "none" /\ upc' = "inflight"
               /\ upReq' = [Path |-> name, Mode |-> WriteModeOverwrite,
                            AutoRename |-> FALSE, Mute |-> TRUE,
                            ClientModified |-> "", Reader |-> PipeR]
               /\ UploadReq(upReq').Body = ReaderBody(PipeR)
               /\ UploadReq(upReq').url = <<ContentHost, "/files/upload">>
        /\ (WriteCalled /\ ~writing) => uploads' = uploads + 1
        /\ uploads' = uploads => upReq' = upReq ]_vars

\* A second Write is in flight after a first one returned, with one uploader.
C14_Witness ==
    /\ uploads = 1 /\ pc = "write" /\ Len(wrote) > 0
    /\ upReq.Path = name /\ upReq.Reader = PipeR

\* C16 (as claimed): once Close has closed the pipe writer of a writing
\* handle, the uploader eventually ends by closing R with the outcome of the
\* upload (unless a Read of the caller's has brought the process down first).
C16_UploadCompletes ==
    (werr = EOFErr) ~> (upc = "done" \/ (crashed /\ upc # "panic"))

\* C17 (as claimed): in no state is the caller inside Write while the
\* uploader has ended without closing R.
C17_NoStuckWriter == ~(pc = "write" /\ upc = "panic" /\ rerr = NoErr)

\* C18: a step makes a download request exactly when it is a Read call on a
\* handle that holds no body; a handle that holds a body keeps holding one and
\* makes no further request, so at most one download succeeds; a Read whose
\* download failed leaves the handle without a body, and one whose download
\* succeeded leaves it with the body.
C18_LazyDownloadOnce ==
    [][ /\ downloads' # downloads =>
               (ReadCalled /\ reader = NilBody /\ downloads' = downloads + 1)
        /\ (ReadCalled /\ reader = NilBody) => downloads' = downloads + 1
        /\ reader # NilBody => (reader' # NilBody /\ downloads' = downloads)
        /\ (Returned("Read") /\ downloads' # downloads) =>
               IF ret'.dl = NoErr THEN reader' = ResBody ELSE reader' = NilBody ]_vars

\* A failed download, then a successful one, then a Read that only delegates.
C18_Witness ==
    /\ downloads = 2 /\ calls = 3 /\ reader = ResBody
    /\ ret.op = "Read" /\ ret.dl = NoDl /\ ret.n = 1

(***************************************************************************)
(* Property of the send operation.                                         *)
(***************************************************************************)
\* C20 (as claimed): the send operation never returns a nil body together
\* with a nil error.
C20_NoNilBodyNilError ==
    doOut # NoResult => ~(doOut.body = NilBody /\ doOut.err = NoErr)
====
